---- MODULE Spec2Model ----
(***************************************************************************)
(* Verification of chat responses of the NEAR AI chat agent:               *)
(*   src/src/lib/verification.ts    computeHash, fetchSignature,           *)
(*                                  fetchAttestation (retry with backoff)  *)
(*   src/src/types/verification.ts  validateSignature,                     *)
(*                                  VerificationService.verifyMessage      *)
(*   src/src/server.ts              Chat.onChatMessage, Chat.executeTask,  *)
(*                                  Chat.saveMessages                      *)
(*   src/unnamed/part_000           parseSSE, streamChatCompletion         *)
(*                                                                         *)
(* A JavaScript string is a sequence of text atoms (TLA+ strings); string  *)
(* concatenation is \o.  An optional value (T | undefined | null) is a set *)
(* with at most one element.                                               *)
(***************************************************************************)
EXTENDS Integers, Sequences, FiniteSets, Bags, TLC

----------------------------------------------------------------------------
(* Optional values *)

None == {}

Some(v) == {v}

The(o) == CHOOSE v \in o : TRUE

\* JavaScript truthiness of an optional string: present and not "".
Truthy(o) == o # None /\ The(o) # <<>>

\* a || b on optional strings
OrElse(a, b) == IF Truthy(a) THEN a ELSE b

----------------------------------------------------------------------------
(* Strings *)

RECURSIVE Flatten(_)
\* Array.prototype.join("") of a sequence of strings
Flatten(ss) == IF ss = <<>> THEN <<>> ELSE Head(ss) \o Flatten(Tail(ss))

\* String.prototype.startsWith
StartsWith(s, p) == Len(p) <= Len(s) /\ SubSeq(s, 1, Len(p)) = p

\* The positions at which p occurs in s
Occurrences(s, p) ==
    { i \in 1..(Len(s) - Len(p) + 1) : SubSeq(s, i, i + Len(p) - 1) = p }

\* String.prototype.includes
Includes(s, p) == Occurrences(s, p) # {}

RECURSIVE SplitFrom(_, _, _)
\* The fields of s after position `from`, delimited by the atom d;
\* `acc` is the field being read.
SplitFrom(s, d, acc) ==
    IF s = <<>> THEN <<acc>>
    ELSE IF Head(s) = d THEN <<acc>> \o SplitFrom(Tail(s), d, <<>>)
    ELSE SplitFrom(Tail(s), d, Append(acc, Head(s)))

\* String.prototype.split(d) for a one-character delimiter
Split(s, d) == SplitFrom(s, d, <<>>)

UpperCase == {"A", "B", "C", "D", "E", "F"}

\* One character of String.prototype.toLowerCase
LowerChar(c) ==
    CASE c = "A" -> "a" [] c = "B" -> "b" [] c = "C" -> "c"
      [] c = "D" -> "d" [] c = "E" -> "e" [] c = "F" -> "f"
      [] OTHER -> c

\* String.prototype.toLowerCase
toLowerCase(s) == [i \in DOMAIN s |-> LowerChar(s[i])]

----------------------------------------------------------------------------
(* computeHash: SHA-256 of the UTF-8 bytes, as lowercase hex *)

\* The width of the digest in bytes.  crypto.subtle.digest("SHA-256") yields
\* 32 bytes; the model keeps the rendering (two lowercase hex characters per
\* byte) and narrows the digest.
DigestBytes == 1

HexDigits == <<"0", "1", "2", "3", "4", "5", "6", "7",
               "8", "9", "a", "b", "c", "d", "e", "f">>

\* TextEncoder().encode: the byte an atom contributes to the digest
Encode(c) ==
    CASE c = "\n" -> 10 [] c = ":" -> 58 [] c = "{" -> 123 [] c = "}" -> 125
      [] c = "[" -> 91 [] c = "]" -> 93 [] c = "," -> 44 [] c = "\"" -> 34
      [] c = "h" -> 104 [] c = "i" -> 105 [] c = "o" -> 111 [] c = "k" -> 107
      [] c = "model" -> 201 [] c = "messages" -> 202 [] c = "role" -> 203
      [] c = "content" -> 204 [] c = "stream" -> 205 [] c = "true" -> 206
      [] c = "system" -> 207 [] c = "user" -> 208 [] c = "assistant" -> 209
      [] c = "openai/gpt-oss-120b" -> 210 [] c = "prompt" -> 211
      [] c = "task" -> 212
      [] OTHER -> 63

\* Byte k of the digest of the bytes enc: a deterministic function of the
\* length of the input and of all its bytes, in order (the sum of the
\* bytes weighted by their positions, taken as the size of the bag that
\* holds position i that many times).
DigestByte(k, enc) ==
    (BagCardinality([i \in DOMAIN enc |-> Encode(enc[i]) * (2 * i + 1)])
       + 17 * k * (Len(enc) + 1)) % 256

\* crypto.subtle.digest("SHA-256", enc), narrowed to DigestBytes bytes
Digest(enc) == [k \in 1..DigestBytes |-> DigestByte(k, enc)]

\* b.toString(16).padStart(2, "0")
ByteHex(b) == <<HexDigits[(b \div 16) + 1], HexDigits[(b % 16) + 1]>>

\* computeHash(data), when the hashing primitive works:
\* const enc = new TextEncoder().encode(data); the digest of enc; its
\* bytes in hex, joined
computeHash(data) ==
    The({ Flatten([k \in 1..DigestBytes |-> ByteHex(Digest(enc)[k])]) :
            enc \in {data} })

----------------------------------------------------------------------------
(* JSON.stringify of the request body {model, messages, stream: true} *)

\* One character of a JSON string literal (quote, backslash and newline
\* are escaped)
JsonChar(c) ==
    CASE c = "\n" -> <<"\\", "n">>
      [] c = "\"" -> <<"\\", "\"">>
      [] c = "\\" -> <<"\\", "\\">>
      [] OTHER -> <<c>>

\* JSON.stringify of a string
JsonString(s) ==
    <<"\"">> \o Flatten([i \in DOMAIN s |-> JsonChar(s[i])]) \o <<"\"">>

\* JSON.stringify of one {role, content} message
JsonMessage(m) ==
    <<"{", "\"", "role", "\"", ":">> \o JsonString(m.role)
      \o <<",", "\"", "content", "\"", ":">> \o JsonString(m.content) \o <<"}">>

RECURSIVE JsonMessages(_)
\* The elements of a JSON array, separated by commas
JsonMessages(ms) ==
    IF ms = <<>> THEN <<>>
    ELSE IF Len(ms) = 1 THEN JsonMessage(ms[1])
    ELSE JsonMessage(ms[1]) \o <<",">> \o JsonMessages(Tail(ms))

\* JSON.stringify(requestBody); JSON.stringify(null) is "null"
JSONstringify(body) ==
    IF body = None THEN <<"null">>
    ELSE <<"{", "\"", "model", "\"", ":">> \o JsonString(The(body).model)
           \o <<",", "\"", "messages", "\"", ":", "[">>
           \o JsonMessages(The(body).messages)
           \o <<"]", ",", "\"", "stream", "\"", ":", "true", "}">>

----------------------------------------------------------------------------
(* validateSignature *)

\* The address ethers.verifyMessage recovers when the message is not the
\* one that was signed: an address unrelated to any declared one.
UnrelatedAddress == <<"0x", "F", "F">>

\* ethers.verifyMessage(message, signature): the recovered address, or None
\* when recovery throws (malformed signature, wrong encoding).  A
\* well-formed signature is determined by the key that made it and the
\* message it was made over.
ethersVerifyMessage(message, signature) ==
    IF ~signature.wellFormed THEN None
    ELSE IF message = signature.msg THEN Some(signature.signer)
    ELSE Some(UnrelatedAddress)

\* A variant of signedPayload that prefers the legacy field
signedPayloadLegacyFirst(sig, expectedHash) ==
    IF Truthy(sig.signedHash) THEN The(sig.signedHash)
    ELSE IF Truthy(sig.text) THEN The(sig.text)
    ELSE expectedHash

\* const signedPayload = sig.text || sig.signedHash || expectedHash
signedPayload(sig, expectedHash) ==
    IF Truthy(sig.text) THEN The(sig.text)
    ELSE IF Truthy(sig.signedHash) THEN The(sig.signedHash)
    ELSE expectedHash

\* A variant of expectedAddr that prefers the public key field
expectedAddrKeyFirst(sig) ==
    OrElse(OrElse(sig.signerPublicKey, sig.signing_address), sig.signing_address)

\* const expectedAddr =
\*   sig.signing_address || sig.signerPublicKey || sig.signerPublicKey
expectedAddr(sig) ==
    OrElse(OrElse(sig.signing_address, sig.signerPublicKey), sig.signerPublicKey)

\* expectedAddr && recovered.toLowerCase() === expectedAddr.toLowerCase()
AddressMatches(recovered, expected) ==
    Truthy(expected) /\ toLowerCase(recovered) = toLowerCase(The(expected))

\* A variant of validateSignature that accepts a signature whose recovery
\* throws
validateSignatureLenient(sig, expectedHash) ==
    IF sig = None THEN FALSE
    ELSE LET recovery ==
                 ethersVerifyMessage(signedPayload(The(sig), expectedHash),
                                     The(sig).signature)
         IN  IF recovery = None THEN TRUE
             ELSE AddressMatches(The(recovery), expectedAddr(The(sig)))

\* validateSignature(sig, expectedHash); sig is an optional SignatureResponse
validateSignature(sig, expectedHash) ==
    IF sig = None THEN FALSE
    ELSE LET recovery ==
                 ethersVerifyMessage(signedPayload(The(sig), expectedHash),
                                     The(sig).signature)
         IN  IF recovery = None THEN FALSE
             ELSE AddressMatches(The(recovery), expectedAddr(The(sig)))

----------------------------------------------------------------------------
(* VerificationService.verifyMessage: hashing, reconciliation, verdict *)

\* The four hash variants computed on entry
Hashes(requestBody, responseText) ==
    [ requestHashWithNewlines  |->
          computeHash(JSONstringify(requestBody) \o <<"\n", "\n">>),
      requestHashNoNewlines    |-> computeHash(JSONstringify(requestBody)),
      responseHashWithNewlines |-> computeHash(responseText \o <<"\n", "\n">>),
      responseHashNoNewlines   |-> computeHash(responseText) ]

\* A variant of matchesWith that is satisfied by one matching component
matchesWithEither(h, sigReq, sigRes) ==
    sigReq = h.requestHashWithNewlines \/ sigRes = h.responseHashWithNewlines

\* sigReq === requestHashWithNewlines && sigRes === responseHashWithNewlines
matchesWith(h, sigReq, sigRes) ==
    sigReq = h.requestHashWithNewlines /\ sigRes = h.responseHashWithNewlines

\* A variant of matchesWithout that compares the request hash only
matchesWithoutRequestOnly(h, sigReq, sigRes) ==
    sigReq = h.requestHashNoNewlines

\* sigReq === requestHashNoNewlines && sigRes === responseHashNoNewlines
matchesWithout(h, sigReq, sigRes) ==
    sigReq = h.requestHashNoNewlines /\ sigRes = h.responseHashNoNewlines

\* A variant of ChooseHashes that keeps the newline variant when neither
\* local pair is matched
ChooseHashesLocalOnly(h, sigReq, sigRes) ==
    IF matchesWith(h, sigReq, sigRes)
    THEN [requestHash  |-> h.requestHashWithNewlines,
          responseHash |-> h.responseHashWithNewlines]
    ELSE IF matchesWithout(h, sigReq, sigRes)
    THEN [requestHash  |-> h.requestHashNoNewlines,
          responseHash |-> h.responseHashNoNewlines]
    ELSE [requestHash  |-> h.requestHashWithNewlines,
          responseHash |-> h.responseHashWithNewlines]

\* The pair chosen when signature.text has exactly two fields
ChooseHashes(h, sigReq, sigRes) ==
    IF matchesWith(h, sigReq, sigRes)
    THEN [requestHash  |-> h.requestHashWithNewlines,
          responseHash |-> h.responseHashWithNewlines]
    ELSE IF matchesWithout(h, sigReq, sigRes)
    THEN [requestHash  |-> h.requestHashNoNewlines,
          responseHash |-> h.responseHashNoNewlines]
    ELSE [requestHash |-> sigReq, responseHash |-> sigRes]

\* let requestHash = requestHashWithNewlines; let responseHash = ...
DefaultHashes(h) ==
    [requestHash  |-> h.requestHashWithNewlines,
     responseHash |-> h.responseHashWithNewlines]

\* A variant of Reconcile that reads the first two fields of a text with
\* two fields or more
ReconcileFirstTwo(h, signature) ==
    IF signature # None /\ Truthy(The(signature).text)
    THEN LET parts == Split(The(The(signature).text), ":")
         IN  IF Len(parts) >= 2 THEN ChooseHashes(h, parts[1], parts[2])
             ELSE DefaultHashes(h)
    ELSE DefaultHashes(h)

\* if (signature?.text) { const parts = signature.text.split(":");
\*   if (parts.length === 2) { ... } }
Reconcile(h, signature) ==
    IF signature # None /\ Truthy(The(signature).text)
    THEN LET parts == Split(The(The(signature).text), ":")
         IN  IF Len(parts) = 2 THEN ChooseHashes(h, parts[1], parts[2])
             ELSE DefaultHashes(h)
    ELSE DefaultHashes(h)

\* const concatenated = `${requestHash}:${responseHash}`
concatenated(c) == c.requestHash \o <<":">> \o c.responseHash

\* A variant of Verdict that is satisfied by either piece of evidence
VerdictEither(signature, attestation, payload) ==
    validateSignature(signature, payload) \/ attestation # None

\* A variant of Verdict that reads the attestation: it must declare a
\* signing address
VerdictBoundToAttestation(signature, attestation, payload) ==
    /\ validateSignature(signature, payload)
    /\ attestation # None
    /\ The(attestation).signing_address # None

\* validateSignature(signature, concatenated) && !!attestation
Verdict(signature, attestation, payload) ==
    validateSignature(signature, payload) /\ attestation # None

\* new Date().toISOString(): the value of the timestamp is not modelled
Timestamp == <<"now">>

\* The VerificationData returned by verifyMessage once both fetches have
\* settled: signature and attestation are the records obtained (None for a
\* failed fetch), error the accumulated fetch errors.
VerifyResult(chatId, model, h, signature, attestation, error) ==
    LET canonical == Reconcile(h, signature)
    IN  [ chatId       |-> chatId,
          model        |-> model,
          requestHash  |-> canonical.requestHash,
          responseHash |-> canonical.responseHash,
          signature    |-> signature,
          attestation  |-> attestation,
          verified     |-> Verdict(signature, attestation,
                                   concatenated(canonical)),
          fetchedAt    |-> Some(Timestamp),
          error        |-> error ]

----------------------------------------------------------------------------
(* fetchSignature / fetchAttestation: retry policy and error texts *)

\* backoff.attempts
attempts == 5

\* backoff.delays, in ms
delays == <<5000, 10000, 15000, 20000, 30000>>

\* Why one request failed: a non-success HTTP status (the code throws
\* Error(`Signature fetch failed: ${res.status}`)) or a network failure
\* (fetch rejects with a TypeError).
Causes == {"http-500", "network"}

\* String(e) of the error caught for one failed request of fetch `kind`
CauseText(kind, cause) ==
    IF cause = "network" THEN <<"TypeError: ", "fetch failed">>
    ELSE <<"Error: ",
           IF kind = "signature" THEN "Signature fetch failed: "
                                 ELSE "Attestation fetch failed: ",
           "500">>

\* String(e) of the error thrown after the loop:
\* new Error(`Failed to fetch signature after retries: ${String(lastError)}`)
FetchErrorText(kind, lastError) ==
    <<"Error: ",
      IF kind = "signature" THEN "Failed to fetch signature after retries: "
                            ELSE "Failed to fetch attestation after retries: ">>
      \o lastError

\* error = `signature-fetch-failed: ${String(e)}`
SignatureFetchFailed(e) == Some(<<"signature-fetch-failed: ">> \o e)

\* A variant of AttestationFetchFailed that overwrites the error
AttestationFetchFailedOverwrites(error, e) ==
    Some(<<"attestation-fetch-failed: ">> \o e)

\* error = error ? `${error}; attestation-fetch-failed: ${String(e)}`
\*               : `attestation-fetch-failed: ${String(e)}`
AttestationFetchFailed(error, e) ==
    IF Truthy(error)
    THEN Some(The(error) \o <<"; ", "attestation-fetch-failed: ">> \o e)
    ELSE Some(<<"attestation-fetch-failed: ">> \o e)

\* A variant of RetriesLeft that retries after the last request too
RetriesLeftInclusive(i) == i < attempts

\* A variant of RetryDelay whose waits double
RetryDelayDoubling(i) == 5000 * (2 ^ i)

\* A variant of RetryDelay whose waits are 1, 2, 3, 4 s
RetryDelayShort(i) == 1000 * (i + 1)

\* Whether the failure of request number i (0-based) is followed by a wait
\* and another request: if (i < backoff.attempts - 1)
RetriesLeft(i) == i < attempts - 1

\* The wait after the failure of request number i: backoff.delays[i]
RetryDelay(i) == delays[i + 1]

----------------------------------------------------------------------------
(* The chat agent: messages, their verification metadata, and the          *)
(* verification tasks in flight                                            *)

\* The number of scheduled tasks (calls of executeTask) in a behaviour
MaxTasks == 1

\* const NEAR_MODEL = "openai/gpt-oss-120b"
NEAR_MODEL == <<"openai/gpt-oss-120b">>

\* const verificationTimeoutMs = 30000
verificationTimeoutMs == 30000

VARIABLES
    messages,   \* this.messages: the agent's message list
    runs,       \* the verification tasks launched, by message id
    nextId,     \* the next value of generateId()
    finishes,   \* the onFinish notifications delivered
    apiKey,     \* process.env.NEARAI_CLOUD_API_KEY || ""
    hashOk,     \* whether crypto.subtle.digest works in this environment
    vin,        \* verifyMessage in isolation: its inputs and fetch outcomes
    vout,       \* verifyMessage in isolation: the record it returned
    sseStream,  \* streamChatCompletion: the text of the response body
    unread,     \* the part of the body reader.read() has not returned yet
    sseBuffer,  \* let sseBuffer
    sseResponseText, \* let responseText
    tokens      \* the arguments of the calls of onToken, in order

\* The variables of streamChatCompletion
streamVars == <<sseStream, unread, sseBuffer, sseResponseText, tokens>>

\* No completion is streaming
StreamIdle ==
    /\ sseStream = <<>>
    /\ unread = <<>>
    /\ sseBuffer = <<>>
    /\ sseResponseText = <<>>
    /\ tokens = <<>>

vars == <<messages, runs, nextId, finishes, apiKey, hashOk, vin, vout, streamVars>>

\* The texts a chat completion streams back
ResponseTexts == {<<"h", "i">>, <<"o", "k", "\n">>}

\* The exchange identifiers streamChatCompletion returns (null when absent).
\* An identifier names one exchange: a behaviour has at most one exchange
\* per element, so at most one that is verified and one that is not.
ChatIds == {None, Some(<<"chat-1">>)}

\* The descriptions of scheduled tasks
TaskDescriptions == {<<"task">>}

\* The keys signatures are made with, as checksummed (mixed-case) addresses
SignerAddress == <<"0x", "A", "b">>

OtherAddress == <<"0x", "c", "D">>

\* A SignatureResponse (the fields verifyMessage reads)
SignatureResponse(text, signedHash, signature, address, publicKey) ==
    [ text            |-> text,
      signedHash      |-> signedHash,
      signature       |-> signature,
      signing_address |-> address,
      signerPublicKey |-> publicKey ]

\* A well-formed signature by `signer` over `msg`
Signed(signer, msg) == [wellFormed |-> TRUE, signer |-> signer, msg |-> msg]

\* A signature value that cannot be decoded
Malformed == [wellFormed |-> FALSE, signer |-> <<>>, msg |-> <<>>]

NewlinePair(h) ==
    h.requestHashWithNewlines \o <<":">> \o h.responseHashWithNewlines

PlainPair(h) == h.requestHashNoNewlines \o <<":">> \o h.responseHashNoNewlines

\* A pair of hashes of some other exchange
ForeignPair == computeHash(<<"[">>) \o <<":">> \o computeHash(<<"]">>)

\* The signature records the provider answers with in the agent model, for
\* an exchange with hashes h: an honest record over the newline pair, one
\* over hashes the agent cannot reproduce, and one made with another key.
ProviderSignatures(h) ==
    { SignatureResponse(Some(NewlinePair(h)), None,
                        Signed(SignerAddress, NewlinePair(h)),
                        Some(toLowerCase(SignerAddress)), None),
      SignatureResponse(Some(ForeignPair), None,
                        Signed(SignerAddress, ForeignPair),
                        Some(SignerAddress), None),
      SignatureResponse(Some(NewlinePair(h)), None,
                        Signed(OtherAddress, NewlinePair(h)),
                        Some(SignerAddress), None) }

\* An AttestationResponse (two of its optional fields)
AttestationResponse(address, quote) ==
    [signing_address |-> address, intel_quote |-> quote]

\* The attestation records the provider answers with in the agent model
ProviderAttestations == { AttestationResponse(Some(SignerAddress), None) }

\* pendingMetadata.verification
PendingVerification(chatId) ==
    [ chatId       |-> IF Truthy(chatId) THEN The(chatId) ELSE <<>>,
      model        |-> NEAR_MODEL,
      requestHash  |-> <<>>,
      responseHash |-> <<>>,
      signature    |-> None,
      attestation  |-> None,
      verified     |-> FALSE,
      fetchedAt    |-> None,
      error        |-> None ]

\* A variant of Message that stores no verification status
MessageWithoutStatus(id, role, text, status, verification) ==
    [ id       |-> id,
      role     |-> role,
      parts    |-> text,
      metadata |-> [ createdAt          |-> Timestamp,
                     verificationStatus |-> None,
                     verification       |-> verification ] ]

\* A UIMessage with one text part
Message(id, role, text, status, verification) ==
    [ id       |-> id,
      role     |-> role,
      parts    |-> text,
      metadata |-> [ createdAt          |-> Timestamp,
                     verificationStatus |-> status,
                     verification       |-> verification ] ]

\* nearMessages: each message flattened to {role, content}
nearMessages(msgs) ==
    [k \in DOMAIN msgs |-> [role |-> <<msgs[k].role>>, content |-> msgs[k].parts]]

\* The request body streamChatCompletion builds and returns
RequestBody(msgs) ==
    Some([ model    |-> NEAR_MODEL,
           messages |-> <<[role |-> <<"system">>, content |-> <<"prompt">>]>>
                          \o nearMessages(msgs),
           stream   |-> TRUE ])

\* The timer of the deadline promise: setTimeout(..., verificationTimeoutMs)
DeadlineTimer == verificationTimeoutMs

\* A verification task at launch: verifyMessage has been called and is
\* computing its hashes, the deadline timer is set, the race is undecided.
NewRun(chatId, requestBody, streamedText) ==
    [ chatId       |-> The(chatId),
      requestBody  |-> requestBody,
      streamedText |-> streamedText,
      vpc          |-> "hash",      \* where verifyMessage is
      hashes       |-> None,        \* its four hash variants, once computed
      i            |-> 0,           \* the loop index of the running fetch
      fst          |-> "idle",      \* "req": awaiting fetch; "wait": backoff
      wleft        |-> 0,           \* ms left of the backoff wait
      lastError    |-> <<>>,
      signature    |-> None,
      attestation  |-> None,
      error        |-> None,
      data         |-> None,        \* what verifyMessage resolved with
      sigReqs      |-> 0,           \* requests issued by fetchSignature
      attReqs      |-> 0,           \* requests issued by fetchAttestation
      sigWaited    |-> 0,           \* ms fetchSignature spent in backoff
      attWaited    |-> 0,           \* ms fetchAttestation spent in backoff
      race         |-> "pending",   \* Promise.race: pending, or what won it
      e            |-> <<>>,        \* String(e) of the caught rejection
      opc          |-> "await",     \* the task: await / catch / end
      dleft        |-> DeadlineTimer, \* ms left of the deadline timer
      dfired       |-> FALSE ]

----------------------------------------------------------------------------
(* Updates of this.messages *)

\* A variant of ApplyVerdict that maps over the list as it was when the
\* pending message was saved (messages appended since are dropped)
ApplyVerdictToSnapshot(msgs, messageId, data) ==
    LET last == CHOOSE k \in DOMAIN msgs : msgs[k].id = messageId
    IN  [k \in 1..last |->
            IF msgs[k].id = messageId
            THEN [msgs[k] EXCEPT
                     !.metadata.verification = Some(data),
                     !.metadata.verificationStatus =
                         Some(IF data.verified THEN "verified" ELSE "failed")]
            ELSE msgs[k]]

\* A variant of ApplyVerdict that marks the message verified whenever the
\* record holds a signature record
ApplyVerdictBySignature(msgs, messageId, data) ==
    [k \in DOMAIN msgs |->
        IF msgs[k].id = messageId
        THEN [msgs[k] EXCEPT
                 !.metadata.verification = Some(data),
                 !.metadata.verificationStatus =
                     Some(IF data.signature # None THEN "verified"
                                                   ELSE "failed")]
        ELSE msgs[k]]

\* this.messages.map((m) => m.id === messageId ? {...m, metadata: {
\*   ...m.metadata, verification: data,
\*   verificationStatus: data.verified ? "verified" : "failed" }} : m)
ApplyVerdict(msgs, messageId, data) ==
    [k \in DOMAIN msgs |->
        IF msgs[k].id = messageId
        THEN [msgs[k] EXCEPT
                 !.metadata.verification = Some(data),
                 !.metadata.verificationStatus =
                     Some(IF data.verified THEN "verified" ELSE "failed")]
        ELSE msgs[k]]

\* The verification written by the catch branch: the fields of the stored
\* verification, overwritten by error, verified, fetchedAt, chatId, model
\* and the two hashes.
FailureVerification(old, e, chatId, requestHash, responseHash) ==
    LET base == IF old = None THEN PendingVerification(None) ELSE The(old)
    IN  [base EXCEPT
            !.error        = Some(e),
            !.verified     = FALSE,
            !.fetchedAt    = Some(Timestamp),
            !.chatId       = chatId,
            !.model        = NEAR_MODEL,
            !.requestHash  = requestHash,
            !.responseHash = responseHash]

\* A variant of ApplyFailure that does not compare ids: every message of
\* the list is marked failed
ApplyFailureToAll(msgs, messageId, e, chatId, requestHash, responseHash) ==
    [k \in DOMAIN msgs |->
        [msgs[k] EXCEPT
            !.metadata.verification =
                Some(FailureVerification(@, e, chatId,
                                         requestHash, responseHash)),
            !.metadata.verificationStatus = Some("failed")]]

\* this.messages.map(...) of the catch branch
ApplyFailure(msgs, messageId, e, chatId, requestHash, responseHash) ==
    [k \in DOMAIN msgs |->
        IF msgs[k].id = messageId
        THEN [msgs[k] EXCEPT
                 !.metadata.verification =
                     Some(FailureVerification(@, e, chatId,
                                              requestHash, responseHash)),
                 !.metadata.verificationStatus = Some("failed")]
        ELSE msgs[k]]

\* A variant of CatchHashes that hashes without the trailing newlines
CatchHashesPlain(requestBody, streamedText) ==
    IF hashOk
    THEN [requestHash  |-> computeHash(JSONstringify(requestBody)),
          responseHash |-> computeHash(streamedText)]
    ELSE [requestHash |-> <<>>, responseHash |-> <<>>]

\* The hashes of the catch branch: computed with the newline convention,
\* left "" when computeHash throws.
CatchHashes(requestBody, streamedText) ==
    IF hashOk
    THEN [requestHash  |->
              computeHash(JSONstringify(requestBody) \o <<"\n", "\n">>),
          responseHash |-> computeHash(streamedText \o <<"\n", "\n">>)]
    ELSE [requestHash |-> <<>>, responseHash |-> <<>>]

----------------------------------------------------------------------------
(* Chat.onChatMessage and Chat.executeTask *)

\* A variant of Launches that does not read the credential
LaunchesWithoutKey(chatId) == Truthy(chatId)

\* if (chatId && apiKey): whether the verification task is launched
Launches(chatId) == Truthy(chatId) /\ apiKey # <<>>

\* One chat exchange: the completion has streamed streamedText and returned
\* chatId; the assistant message is saved as pending, the verification task
\* is launched and onFinish is notified with the pending stub.
OnChatMessage(chatId, streamedText) ==
    /\ \A f \in finishes :
           f.verification.chatId # PendingVerification(chatId).chatId
    /\ LET messageId == nextId
           body      == RequestBody(messages)
           pending   == PendingVerification(chatId)
       IN  /\ messages' = Append(messages,
                  Message(messageId, "assistant", streamedText,
                          Some("pending"), Some(pending)))
           /\ runs' = IF Launches(chatId)
                      THEN [m \in DOMAIN runs \cup {messageId} |->
                               IF m = messageId
                               THEN NewRun(chatId, body, streamedText)
                               ELSE runs[m]]
                      ELSE runs
           /\ finishes' = finishes \cup
                  {[messageId |-> messageId, verification |-> pending]}
           /\ nextId' = nextId + 1
    /\ UNCHANGED <<apiKey, hashOk, vin, vout, streamVars>>

\* executeTask(description): a user message is appended
ExecuteTask(description) ==
    /\ Cardinality({k \in DOMAIN messages : messages[k].role = "user"})
         < MaxTasks
    /\ messages' = Append(messages,
           Message(nextId, "user", <<"Running scheduled task: ">> \o description,
                   None, None))
    /\ nextId' = nextId + 1
    /\ UNCHANGED <<runs, finishes, apiKey, hashOk, vin, vout, streamVars>>

----------------------------------------------------------------------------
(* The verification task: verifyMessage raced against the deadline *)

\* String(e) of the rejection of the deadline promise:
\* reject(new Error("verification-timeout"))
TimeoutError == <<"Error: ", "verification-timeout">>

\* String(e) of what computeHash throws when the hashing primitive fails
HashError == <<"TypeError: ", "digest failed">>

\* The hashes are computed and fetchSignature is entered: its first
\* request is issued
StartSignature(r) ==
    [r EXCEPT !.hashes = Some(Hashes(r.requestBody, r.streamedText)),
              !.vpc = "sig", !.i = 0, !.fst = "req", !.sigReqs = 1]

\* A variant of StartAttestation that issues no attestation request when
\* the signature fetch has failed
StartAttestationUnlessFailed(r) ==
    IF r.signature = None
    THEN [r EXCEPT !.vpc = "att", !.i = 0, !.fst = "idle", !.wleft = 0,
                   !.lastError = <<>>]
    ELSE [r EXCEPT !.vpc = "att", !.i = 0, !.fst = "req", !.wleft = 0,
                   !.lastError = <<>>, !.attReqs = 1]

\* verifyMessage goes on to `attestation = await fetchAttestation(...)`:
\* the first attestation request is issued
StartAttestation(r) ==
    [r EXCEPT !.vpc = "att", !.i = 0, !.fst = "req", !.wleft = 0,
              !.lastError = <<>>, !.attReqs = 1]

\* A variant of Return that drops the evidence when a fetch has failed
ReturnWithoutEvidence(r) ==
    [r EXCEPT !.vpc = "done", !.fst = "idle", !.wleft = 0,
              !.data = Some(VerifyResult(r.chatId, NEAR_MODEL, The(r.hashes),
                                IF r.error = None THEN r.signature ELSE None,
                                IF r.error = None THEN r.attestation ELSE None,
                                r.error))]

\* verifyMessage returns: reconciliation, validation, the record
Return(r) ==
    [r EXCEPT !.vpc = "done", !.fst = "idle", !.wleft = 0,
              !.data = Some(VerifyResult(r.chatId, NEAR_MODEL, The(r.hashes),
                                r.signature, r.attestation, r.error))]

\* A variant of Settle in which a promise that settles later wins again
SettleAgain(r, outcome, e) ==
    IF outcome = "verdict"
    THEN [r EXCEPT !.race = outcome, !.opc = "end"]
    ELSE [r EXCEPT !.race = outcome, !.opc = "catch", !.e = e]

\* Promise.race settles with the first of its promises to settle: the
\* record of verifyMessage ("verdict"), the rejection of the deadline
\* promise ("deadline") or a rejection of verifyMessage ("error").  With the
\* record the task's try block goes on; with a rejection its catch block is
\* entered with String(e) = e.  A promise that settles later changes
\* nothing.
Settle(r, outcome, e) ==
    IF r.race # "pending" THEN r
    ELSE IF outcome = "verdict"
    THEN [r EXCEPT !.race = outcome, !.opc = "end"]
    ELSE [r EXCEPT !.race = outcome, !.opc = "catch", !.e = e]

\* A variant of VerifyHashes in which verifyMessage swallows the failure of
\* the hashing primitive and returns a record that carries it as its error
VerifyHashesSwallowing(m) ==
    /\ m \in DOMAIN runs
    /\ runs[m].vpc = "hash"
    /\ IF hashOk
       THEN /\ runs' = [runs EXCEPT ![m] = StartSignature(runs[m])]
            /\ UNCHANGED messages
       ELSE LET data == [PendingVerification(Some(runs[m].chatId)) EXCEPT
                            !.error = Some(HashError)]
            IN  /\ runs' = [runs EXCEPT ![m] =
                              Settle([runs[m] EXCEPT !.vpc = "done",
                                                     !.data = Some(data)],
                                     "verdict", <<>>)]
                /\ messages' = ApplyVerdict(messages, m, data)
    /\ UNCHANGED <<nextId, finishes, apiKey, hashOk, vin, vout, streamVars>>

\* The four hashes of verifyMessage are computed; fetchSignature is
\* entered, or the failure of the hashing primitive rejects verifyMessage.
VerifyHashes(m) ==
    /\ m \in DOMAIN runs
    /\ runs[m].vpc = "hash"
    /\ runs' = [runs EXCEPT ![m] =
                   IF hashOk THEN StartSignature(runs[m])
                   ELSE Settle([runs[m] EXCEPT !.vpc = "threw"],
                               "error", HashError)]
    /\ UNCHANGED <<messages, nextId, finishes, apiKey, hashOk, vin, vout, streamVars>>

\* The state of a fetch loop after request number r.i failed with `cause`:
\* a backoff wait, or (retries exhausted) the loop is left.
AfterFailure(r, kind, cause) ==
    IF RetriesLeft(r.i)
    THEN [r EXCEPT !.lastError = CauseText(kind, cause),
                   !.fst = "wait", !.wleft = RetryDelay(r.i)]
    ELSE [r EXCEPT !.lastError = CauseText(kind, cause), !.fst = "idle"]

\* A signature request is answered with a record: fetchSignature returns
\* it and verifyMessage goes on to the attestation.
SignatureResponded(m, record) ==
    /\ m \in DOMAIN runs
    /\ runs[m].vpc = "sig" /\ runs[m].fst = "req"
    /\ runs' = [runs EXCEPT ![m] =
                   StartAttestation([runs[m] EXCEPT !.signature = Some(record)])]
    /\ UNCHANGED <<messages, nextId, finishes, apiKey, hashOk, vin, vout, streamVars>>

\* A signature request fails: backoff, or fetchSignature throws, the
\* error is recorded and verifyMessage goes on to the attestation.
SignatureFailed(m, cause) ==
    /\ m \in DOMAIN runs
    /\ runs[m].vpc = "sig" /\ runs[m].fst = "req"
    /\ LET failed == AfterFailure(runs[m], "signature", cause)
       IN  runs' = [runs EXCEPT ![m] =
                      IF failed.fst = "wait" THEN failed
                      ELSE StartAttestation([failed EXCEPT !.error =
                               SignatureFetchFailed(
                                   FetchErrorText("signature",
                                                  failed.lastError))])]
    /\ UNCHANGED <<messages, nextId, finishes, apiKey, hashOk, vin, vout, streamVars>>

\* The backoff wait of the running fetch is over: the next request
NextRequest(r) ==
    IF r.vpc = "sig"
    THEN [r EXCEPT !.i = @ + 1, !.fst = "req", !.sigReqs = @ + 1]
    ELSE [r EXCEPT !.i = @ + 1, !.fst = "req", !.attReqs = @ + 1]

\* The timer of a backoff wait fires
RetryTimer(m) ==
    /\ m \in DOMAIN runs
    /\ runs[m].fst = "wait" /\ runs[m].wleft = 0
    /\ runs' = [runs EXCEPT ![m] = NextRequest(runs[m])]
    /\ UNCHANGED <<messages, nextId, finishes, apiKey, hashOk, vin, vout, streamVars>>

\* A variant of Complete that writes the record to the message whenever
\* verifyMessage returns
CompleteAlways(m, returned) ==
    /\ runs' = [runs EXCEPT ![m] = Settle(returned, "verdict", <<>>)]
    /\ messages' = ApplyVerdict(messages, m, The(returned.data))
    /\ UNCHANGED <<nextId, finishes, apiKey, hashOk, vin, vout, streamVars>>

\* verifyMessage has returned (run record `returned`): if the race is still
\* undecided the record wins it and is written to the message
Complete(m, returned) ==
    /\ runs' = [runs EXCEPT ![m] = Settle(returned, "verdict", <<>>)]
    /\ messages' = IF returned.race = "pending"
                   THEN ApplyVerdict(messages, m, The(returned.data))
                   ELSE messages
    /\ UNCHANGED <<nextId, finishes, apiKey, hashOk, vin, vout, streamVars>>

\* An attestation request is answered with a record: verifyMessage returns
AttestationResponded(m, record) ==
    /\ m \in DOMAIN runs
    /\ runs[m].vpc = "att" /\ runs[m].fst = "req"
    /\ Complete(m, Return([runs[m] EXCEPT !.attestation = Some(record)]))

\* An attestation request fails: backoff, or fetchAttestation throws, the
\* error is added to the accumulated one and verifyMessage returns
AttestationFailed(m, cause) ==
    /\ m \in DOMAIN runs
    /\ runs[m].vpc = "att" /\ runs[m].fst = "req"
    /\ LET failed == AfterFailure(runs[m], "attestation", cause)
       IN  IF failed.fst = "wait"
           THEN /\ runs' = [runs EXCEPT ![m] = failed]
                /\ UNCHANGED <<messages, nextId, finishes, apiKey, hashOk,
                               vin, vout, streamVars>>
           ELSE Complete(m, Return([failed EXCEPT !.error =
                    AttestationFetchFailed(failed.error,
                        FetchErrorText("attestation", failed.lastError))]))

\* A variant of DeadlineFires whose timer callback rejects nothing
DeadlineLost(m) ==
    /\ m \in DOMAIN runs
    /\ ~runs[m].dfired /\ runs[m].dleft = 0
    /\ runs' = [runs EXCEPT ![m].dfired = TRUE]
    /\ UNCHANGED <<messages, nextId, finishes, apiKey, hashOk, vin, vout, streamVars>>

\* The deadline timer fires: the deadline promise rejects
DeadlineFires(m) ==
    /\ m \in DOMAIN runs
    /\ ~runs[m].dfired /\ runs[m].dleft = 0
    /\ runs' = [runs EXCEPT ![m] =
                   Settle([runs[m] EXCEPT !.dfired = TRUE],
                          "deadline", TimeoutError)]
    /\ UNCHANGED <<messages, nextId, finishes, apiKey, hashOk, vin, vout, streamVars>>

\* The catch branch of the task: the best-effort hashes are computed and
\* the message is marked failed
CatchBranch(m) ==
    /\ m \in DOMAIN runs
    /\ runs[m].opc = "catch"
    /\ LET run    == runs[m]
           hashes == CatchHashes(run.requestBody, run.streamedText)
       IN  messages' = ApplyFailure(messages, m, run.e, run.chatId,
                                    hashes.requestHash, hashes.responseHash)
    /\ runs' = [runs EXCEPT ![m].opc = "end"]
    /\ UNCHANGED <<nextId, finishes, apiKey, hashOk, vin, vout, streamVars>>

----------------------------------------------------------------------------
(* Time.  Only timers observe it: a step of time advances to the next     *)
(* timer that is due.  A timer that is due fires before time advances,     *)
(* and so does a computation that waits for no timer and no response.      *)

\* The timers that are set: deadline timers and backoff waits
Timers ==
    { runs[m].dleft : m \in {n \in DOMAIN runs : ~runs[n].dfired} }
      \cup { runs[m].wleft : m \in {n \in DOMAIN runs : runs[n].fst = "wait"} }

Min(S) == CHOOSE x \in S : \A y \in S : x <= y

\* Run r after d ms
Elapse(r, d) ==
    [r EXCEPT !.dleft = IF r.dfired THEN @ ELSE @ - d,
              !.wleft = IF r.fst = "wait" THEN @ - d ELSE @,
              !.sigWaited = IF r.fst = "wait" /\ r.vpc = "sig" THEN @ + d ELSE @,
              !.attWaited = IF r.fst = "wait" /\ r.vpc = "att" THEN @ + d ELSE @]

Tick ==
    /\ Timers # {}
    /\ \A t \in Timers : t > 0
    /\ \A m \in DOMAIN runs : runs[m].vpc # "hash" /\ runs[m].opc # "catch"
    /\ runs' = [m \in DOMAIN runs |-> Elapse(runs[m], Min(Timers))]
    /\ UNCHANGED <<messages, nextId, finishes, apiKey, hashOk, vin, vout, streamVars>>

----------------------------------------------------------------------------
(* The agent *)

\* The ids generateId() can return in a behaviour
Ids == 1..(Cardinality(ChatIds) + MaxTasks)

Init ==
    /\ messages = <<>>
    /\ runs = <<>>
    /\ nextId = 1
    /\ finishes = {}
    /\ apiKey \in {<<>>, <<"key">>}
    /\ hashOk \in BOOLEAN
    /\ vin = None
    /\ vout = None
    /\ StreamIdle

Next ==
    \/ \E c \in ChatIds, t \in ResponseTexts : OnChatMessage(c, t)
    \/ \E d \in TaskDescriptions : ExecuteTask(d)
    \/ \E m \in DOMAIN runs : VerifyHashes(m)
    \/ \E m \in {n \in DOMAIN runs : runs[n].vpc = "sig"} :
           \E s \in ProviderSignatures(The(runs[m].hashes)) :
               SignatureResponded(m, s)
    \/ \E m \in DOMAIN runs, c \in Causes : SignatureFailed(m, c)
    \/ \E m \in DOMAIN runs : RetryTimer(m)
    \/ \E m \in DOMAIN runs, a \in ProviderAttestations : AttestationResponded(m, a)
    \/ \E m \in DOMAIN runs, c \in Causes : AttestationFailed(m, c)
    \/ \E m \in DOMAIN runs : DeadlineFires(m)
    \/ \E m \in DOMAIN runs : CatchBranch(m)
    \/ Tick

Spec == Init /\ [][Next]_vars

----------------------------------------------------------------------------
(* verifyMessage in isolation: one call, over every signature record,      *)
(* attestation record and fetch outcome of the sets below                  *)

\* A legacy signed-hash field
LegacyHash == computeHash(<<"{">>)

\* The values of SignatureResponse.text for an exchange with hashes h:
\* absent, empty, the two local pairs, a foreign pair, pairs matching in one
\* component only, one field, three fields, two empty fields
SignatureTexts(h) ==
    { None, Some(<<>>), Some(NewlinePair(h)), Some(PlainPair(h)),
      Some(ForeignPair),
      Some(h.requestHashWithNewlines \o <<":">> \o h.responseHashNoNewlines),
      Some(h.requestHashNoNewlines \o <<":">> \o computeHash(<<"]">>)),
      Some(h.requestHashWithNewlines),
      Some(PlainPair(h) \o <<":">> \o h.responseHashWithNewlines),
      Some(<<":">>) }

\* The signature values that go with a text and a legacy hash: made by
\* either key over the text, the legacy hash or a local pair, or malformed
SignatureValues(h, text, signedHash) ==
    LET msgs == {NewlinePair(h), PlainPair(h)}
                  \cup (IF Truthy(text) THEN text ELSE {})
                  \cup (IF Truthy(signedHash) THEN signedHash ELSE {})
    IN  {Malformed} \cup {Signed(SignerAddress, msg) : msg \in msgs}
                    \cup {Signed(OtherAddress, NewlinePair(h))}

\* The declared addresses: absent, empty, the signer's in lower case or
\* checksummed, another one
DeclaredAddresses ==
    {None, Some(<<>>), Some(toLowerCase(SignerAddress)), Some(SignerAddress),
     Some(OtherAddress)}

\* Every signature record of the sets above
AllSignatures(h) ==
    UNION { UNION { { SignatureResponse(text, signedHash, value, address, key) :
                        value \in SignatureValues(h, text, signedHash),
                        address \in DeclaredAddresses,
                        key \in {None, Some(SignerAddress)} } :
                    signedHash \in {None, Some(<<>>), Some(LegacyHash)} } :
            text \in SignatureTexts(h) }

\* Every attestation record of the model
AllAttestations ==
    { AttestationResponse(Some(SignerAddress), None),
      AttestationResponse(None, Some(<<"quote">>)) }

\* The outcome of one fetch: the record it returned, or (record = None) the
\* cause of its last failed request
FetchOutcomes(records) ==
    { [record |-> Some(rec), cause |-> "none"] : rec \in records }
      \cup { [record |-> None, cause |-> c] : c \in Causes }

\* The inputs of one call of verifyMessage and the outcomes of its fetches
VerifyInputs ==
    UNION { { [ requestBody  |-> RequestBody(<<>>),
                responseText |-> text,
                sig          |-> s,
                att          |-> a ] :
                s \in FetchOutcomes(AllSignatures(
                          Hashes(RequestBody(<<>>), text))),
                a \in FetchOutcomes(AllAttestations) } :
            text \in ResponseTexts }

\* The record verifyMessage returns for inputs and fetch outcomes `in`
VerifyMessage(in) ==
    LET afterSig == IF in.sig.record = None
                    THEN SignatureFetchFailed(FetchErrorText("signature",
                             CauseText("signature", in.sig.cause)))
                    ELSE None
        afterAtt == IF in.att.record = None
                    THEN AttestationFetchFailed(afterSig,
                             FetchErrorText("attestation",
                                 CauseText("attestation", in.att.cause)))
                    ELSE afterSig
    IN  VerifyResult(<<"chat-1">>, NEAR_MODEL,
                     Hashes(in.requestBody, in.responseText),
                     in.sig.record, in.att.record, afterAtt)

InitVerify ==
    /\ messages = <<>>
    /\ runs = <<>>
    /\ nextId = 1
    /\ finishes = {}
    /\ apiKey = <<"key">>
    /\ hashOk = TRUE
    /\ vin \in {Some(in) : in \in VerifyInputs}
    /\ vout = None
    /\ StreamIdle

\* The call returns
VerifyReturns ==
    /\ vin # None /\ vout = None
    /\ vout' = Some(VerifyMessage(The(vin)))
    /\ UNCHANGED <<messages, runs, nextId, finishes, apiKey, hashOk, vin,
                   streamVars>>

NextVerify == VerifyReturns

SpecVerify == InitVerify /\ [][NextVerify]_vars

----------------------------------------------------------------------------
(* Properties of verifyMessage in isolation (SpecVerify) *)

\* C1: in every record verifyMessage returns, verified is true only if
\* validateSignature returns true for the record's signature over the
\* record's requestHash:responseHash and an attestation record is present;
\* a record without signature record or without attestation record has
\* verified = FALSE.
C1_VerifiedNeedsSignatureAndAttestation ==
    vout # None =>
        LET d == The(vout)
        IN  /\ d.verified =>
                 /\ d.signature # None
                 /\ d.attestation # None
                 /\ validateSignature(d.signature,
                        d.requestHash \o <<":">> \o d.responseHash)
            /\ (d.signature = None \/ d.attestation = None) => ~d.verified

\* A call whose signature validates and whose attestation fetch failed
\* has returned an unverified record
C1_Witness ==
    /\ vout # None
    /\ The(vout).attestation = None
    /\ The(vout).signature # None
    /\ validateSignature(The(vout).signature,
           The(vout).requestHash \o <<":">> \o The(vout).responseHash)
    /\ ~The(vout).verified

\* C9: when the text of the signature record has exactly two fields
\* (sigReq, sigRes): if they are the local newline-variant hashes the
\* record's pair is the newline variant (whatever the plain variant is);
\* otherwise, if they are the local plain-variant hashes, the record's pair
\* is the plain variant; when neither pair is matched in both components
\* (one matching component is not enough) neither local pair is selected.
C9_ReconciliationPrecedence ==
    (vout # None /\ The(vin).sig.record # None
        /\ Truthy(The(The(vin).sig.record).text)
        /\ Len(Split(The(The(The(vin).sig.record).text), ":")) = 2) =>
        LET h      == Hashes(The(vin).requestBody, The(vin).responseText)
            parts  == Split(The(The(The(vin).sig.record).text), ":")
            out    == <<The(vout).requestHash, The(vout).responseHash>>
            withNl == <<h.requestHashWithNewlines, h.responseHashWithNewlines>>
            plain  == <<h.requestHashNoNewlines, h.responseHashNoNewlines>>
        IN  /\ <<parts[1], parts[2]>> = withNl => out = withNl
            /\ (<<parts[1], parts[2]>> # withNl
                  /\ <<parts[1], parts[2]>> = plain) => out = plain
            /\ (<<parts[1], parts[2]>> # withNl
                  /\ <<parts[1], parts[2]>> # plain) =>
                   out # withNl /\ out # plain

\* A record was returned for a text that matches the newline variant in the
\* request hash only: neither local pair was selected
C9_Witness ==
    /\ vout # None /\ The(vin).sig.record # None
    /\ LET h == Hashes(The(vin).requestBody, The(vin).responseText)
       IN  /\ The(The(vin).sig.record).text =
                 Some(h.requestHashWithNewlines \o <<":">>
                        \o h.responseHashNoNewlines)
           /\ h.responseHashNoNewlines # h.responseHashWithNewlines
           /\ The(vout).requestHash = h.requestHashWithNewlines
           /\ The(vout).responseHash = h.responseHashNoNewlines

\* C10: when the signature fetch returned no record, or the record's text
\* is absent or empty, or the text does not split at ":" into exactly two
\* fields, the record's (requestHash, responseHash) is the newline-variant
\* pair.
C10_ReconciliationDefault ==
    vout # None =>
        LET h    == Hashes(The(vin).requestBody, The(vin).responseText)
            sig  == The(vin).sig.record
            dflt == \/ sig = None
                    \/ The(sig).text = None
                    \/ The(sig).text = Some(<<>>)
                    \/ Len(Split(The(The(sig).text), ":")) # 2
        IN  dflt => /\ The(vout).requestHash = h.requestHashWithNewlines
                    /\ The(vout).responseHash = h.responseHashWithNewlines

\* A record was returned for a text of three fields that begins with the
\* plain-variant pair, and holds the newline-variant pair
C10_Witness ==
    /\ vout # None /\ The(vin).sig.record # None
    /\ LET h == Hashes(The(vin).requestBody, The(vin).responseText)
       IN  /\ The(The(vin).sig.record).text =
                 Some(PlainPair(h) \o <<":">> \o h.responseHashWithNewlines)
           /\ PlainPair(h) # NewlinePair(h)
           /\ The(vout).requestHash = h.requestHashWithNewlines
           /\ The(vout).responseHash = h.responseHashWithNewlines

----------------------------------------------------------------------------
(* The agent under the scheduling of the event loop: a timer that is due  *)
(* fires, a computation that awaits nothing runs on, time passes.  Nothing *)
(* is assumed of the network: a request may stay unanswered for ever.      *)

Fairness ==
    /\ WF_vars(Tick)
    /\ \A m \in Ids :
           /\ WF_vars(VerifyHashes(m))
           /\ WF_vars(RetryTimer(m))
           /\ WF_vars(DeadlineFires(m))
           /\ WF_vars(CatchBranch(m))

SpecLive == Spec /\ Fairness

----------------------------------------------------------------------------
(* Properties of the agent (Spec, SpecLive) *)

\* C2: every verification task that is launched for a message ends: the
\* message leaves "pending" for "verified" or "failed" and holds a record,
\* whatever the fetches do (answer, fail, stay unanswered); once the
\* deadline timer has fired the race is decided, and a task that has ended
\* has left its message verified or failed.
C2_EveryAttemptTerminates ==
    /\ \A m \in Ids :
           (m \in DOMAIN runs) ~>
               (/\ m \in DOMAIN runs
                /\ runs[m].opc = "end"
                /\ LET msg == messages[CHOOSE k \in DOMAIN messages :
                                           messages[k].id = m]
                   IN  /\ msg.metadata.verificationStatus
                             \in {Some("verified"), Some("failed")}
                       /\ msg.metadata.verification # None
                       /\ The(msg.metadata.verification).fetchedAt # None)
    /\ [](\A m \in DOMAIN runs :
              /\ runs[m].dfired => runs[m].race # "pending"
              /\ runs[m].opc = "end" =>
                     messages[CHOOSE k \in DOMAIN messages :
                                  messages[k].id = m]
                         .metadata.verificationStatus
                       \in {Some("verified"), Some("failed")})

\* The first signature request was never answered, the deadline decided
\* the race and the message is failed
C2_Witness ==
    \E m \in DOMAIN runs :
        /\ runs[m].vpc = "sig" /\ runs[m].fst = "req" /\ runs[m].sigReqs = 1
        /\ runs[m].race = "deadline" /\ runs[m].opc = "end"
        /\ \E k \in DOMAIN messages :
               /\ messages[k].id = m
               /\ messages[k].metadata.verificationStatus = Some("failed")

\* C3 as stated: once the deadline has won the race and the catch branch
\* has run, the message is failed and its record has error
\* "verification-timeout", verified FALSE, the newline-convention hashes
\* of the request body and of the response text, the exchange identifier
\* and the model.
C3_TimeoutRecordAsStated ==
    \A m \in DOMAIN runs :
        (runs[m].race = "deadline" /\ runs[m].opc = "end") =>
            LET msg == messages[CHOOSE k \in DOMAIN messages :
                                    messages[k].id = m]
                v   == The(msg.metadata.verification)
            IN  /\ msg.metadata.verificationStatus = Some("failed")
                /\ v.error = Some(<<"verification-timeout">>)
                /\ v.verified = FALSE
                /\ v.requestHash =
                     computeHash(JSONstringify(runs[m].requestBody)
                                   \o <<"\n", "\n">>)
                /\ v.responseHash =
                     computeHash(runs[m].streamedText \o <<"\n", "\n">>)
                /\ v.chatId = runs[m].chatId
                /\ v.model = <<"openai/gpt-oss-120b">>

\* C3: once the deadline has won the race and the catch branch has run,
\* the message is failed and its record has error
\* "Error: verification-timeout" (String(e) of the Error the deadline
\* rejects with), verified FALSE, the newline-convention hashes of the
\* request body and of the response text, the exchange identifier and the
\* model.
C3_TimeoutRecord ==
    \A m \in DOMAIN runs :
        (runs[m].race = "deadline" /\ runs[m].opc = "end") =>
            LET msg == messages[CHOOSE k \in DOMAIN messages :
                                    messages[k].id = m]
                v   == The(msg.metadata.verification)
            IN  /\ msg.metadata.verificationStatus = Some("failed")
                /\ v.error = Some(<<"Error: ", "verification-timeout">>)
                /\ v.verified = FALSE
                /\ v.requestHash =
                     computeHash(JSONstringify(runs[m].requestBody)
                                   \o <<"\n", "\n">>)
                /\ v.responseHash =
                     computeHash(runs[m].streamedText \o <<"\n", "\n">>)
                /\ v.chatId = runs[m].chatId
                /\ v.model = <<"openai/gpt-oss-120b">>

\* The deadline has won against a signature fetch in its backoff wait and
\* the catch branch has written the record
C3_Witness ==
    \E m \in DOMAIN runs :
        /\ runs[m].race = "deadline" /\ runs[m].opc = "end"
        /\ runs[m].vpc = "sig" /\ runs[m].fst = "wait"
        /\ \E k \in DOMAIN messages :
               /\ messages[k].id = m
               /\ messages[k].metadata.verification # None
               /\ The(messages[k].metadata.verification).error # None

\* C4: each of fetchSignature and fetchAttestation issues at most 5
\* requests; a request that is answered with a record ends the fetch in the
\* same step, with no further request; a request that fails (HTTP status
\* or network) while fewer than 5 have been issued is followed by a wait,
\* and the next request is issued when the wait is over; the failure of
\* the 5th request ends the fetch with an error that carries the cause of
\* that failure.
C4_AtMostFiveRequests ==
    /\ [](\A m \in DOMAIN runs :
              runs[m].sigReqs <= 5 /\ runs[m].attReqs <= 5)
    /\ [][\A m \in DOMAIN runs :
            /\ (runs[m].vpc = "sig" /\ runs'[m].signature # None) =>
                   /\ runs'[m].vpc = "att"
                   /\ runs'[m].sigReqs = runs[m].sigReqs
            /\ runs[m].vpc \in {"att", "done"} =>
                   runs'[m].sigReqs = runs[m].sigReqs
            /\ (runs[m].vpc = "att" /\ runs'[m].attestation # None) =>
                   /\ runs'[m].vpc = "done"
                   /\ runs'[m].attReqs = runs[m].attReqs
            /\ runs[m].vpc = "done" => runs'[m].attReqs = runs[m].attReqs
            /\ (runs'[m].sigReqs + runs'[m].attReqs
                  > runs[m].sigReqs + runs[m].attReqs
                /\ runs[m].sigReqs + runs[m].attReqs > 0
                /\ runs'[m].vpc = runs[m].vpc) =>
                   /\ runs[m].fst = "wait" /\ runs[m].wleft = 0
                   /\ runs'[m].sigReqs + runs'[m].attReqs
                        = runs[m].sigReqs + runs[m].attReqs + 1
            /\ \A c \in Causes :
                 /\ SignatureFailed(m, c) =>
                      IF runs[m].sigReqs < 5
                      THEN /\ runs'[m].vpc = "sig" /\ runs'[m].fst = "wait"
                           /\ runs'[m].wleft > 0
                           /\ runs'[m].sigReqs = runs[m].sigReqs
                           /\ runs'[m].error = None
                      ELSE /\ runs'[m].vpc = "att"
                           /\ runs'[m].signature = None
                           /\ runs'[m].error =
                                Some(<<"signature-fetch-failed: ", "Error: ",
                                       "Failed to fetch signature after retries: ">>
                                       \o CauseText("signature", c))
                 /\ AttestationFailed(m, c) =>
                      IF runs[m].attReqs < 5
                      THEN /\ runs'[m].vpc = "att" /\ runs'[m].fst = "wait"
                           /\ runs'[m].wleft > 0
                           /\ runs'[m].attReqs = runs[m].attReqs
                           /\ runs'[m].error = runs[m].error
                      ELSE /\ runs'[m].vpc = "done"
                           /\ runs'[m].attestation = None
                           /\ runs'[m].error # None
                           /\ LET text == The(runs'[m].error)
                                  last == <<"attestation-fetch-failed: ",
                                            "Error: ",
                                            "Failed to fetch attestation after retries: ">>
                                            \o CauseText("attestation", c)
                              IN  /\ Len(text) >= Len(last)
                                  /\ SubSeq(text, Len(text) - Len(last) + 1,
                                            Len(text)) = last
         ]_vars

\* The signature fetch has failed 5 times, the last time by a network
\* failure, and the attestation fetch was answered on its third request
C4_Witness ==
    \E m \in DOMAIN runs :
        /\ runs[m].vpc = "done"
        /\ runs[m].sigReqs = 5 /\ runs[m].signature = None
        /\ runs[m].attReqs = 3 /\ runs[m].attestation # None
        /\ runs[m].error =
             Some(<<"signature-fetch-failed: ", "Error: ",
                    "Failed to fetch signature after retries: ",
                    "TypeError: ", "fetch failed">>)

C7_FailureDoesNotAbort ==
    /\ [](\A m \in DOMAIN runs :
              /\ runs[m].vpc = "threw" => ~hashOk
              /\ runs[m].vpc = "done" =>
                     /\ runs[m].data # None
                     /\ runs[m].sigReqs >= 1 /\ runs[m].attReqs >= 1
                     /\ The(runs[m].data).signature = runs[m].signature
                     /\ The(runs[m].data).attestation = runs[m].attestation)
    /\ [][\A m \in DOMAIN runs :
            /\ (runs[m].vpc = "sig" /\ runs'[m].signature # None) =>
                   /\ runs'[m].signature
                        \in {Some(s) : s \in
                               ProviderSignatures(The(runs[m].hashes))}
                   /\ runs'[m].vpc = "att" /\ runs'[m].attReqs = 1
            /\ \A c \in Causes :
                 /\ (SignatureFailed(m, c) /\ runs[m].sigReqs = 5) =>
                        /\ runs'[m].vpc = "att" /\ runs'[m].attReqs = 1
                        /\ runs'[m].signature = None
                        /\ runs'[m].race = runs[m].race
                 /\ (AttestationFailed(m, c) /\ runs[m].attReqs = 5) =>
                        /\ runs'[m].vpc = "done" /\ runs'[m].data # None
                        /\ The(runs'[m].data).attestation = None
                        /\ The(runs'[m].data).signature = runs[m].signature
            /\ \A a \in ProviderAttestations :
                 AttestationResponded(m, a) =>
                     /\ runs'[m].vpc = "done" /\ runs'[m].data # None
                     /\ The(runs'[m].data).attestation = Some(a)
                     /\ The(runs'[m].data).signature = runs[m].signature
         ]_vars

\* The signature fetch was answered, the attestation fetch has failed 5
\* times, and the record returned holds the signature record only
C7_Witness ==
    \E m \in DOMAIN runs :
        /\ runs[m].vpc = "done" /\ runs[m].attReqs = 5
        /\ The(runs[m].data).signature # None
        /\ The(runs[m].data).attestation = None

\* C8: the error of the record verifyMessage returns is absent iff both
\* fetches returned a record; begins with "signature-fetch-failed: " and
\* has no attestation label when only the signature fetch failed; begins
\* with "attestation-fetch-failed: " when only the attestation fetch
\* failed; and when both failed begins with "signature-fetch-failed: " and
\* goes on with "; attestation-fetch-failed: ".
C8_ErrorAccumulates ==
    \A m \in DOMAIN runs :
        runs[m].vpc = "done" =>
            LET error     == The(runs[m].data).error
                sigFailed == runs[m].signature = None
                attFailed == runs[m].attestation = None
                sigLabel  == <<"signature-fetch-failed: ">>
                attLabel  == <<"attestation-fetch-failed: ">>
            IN  /\ error = None <=> (~sigFailed /\ ~attFailed)
                /\ (sigFailed /\ ~attFailed) =>
                       /\ StartsWith(The(error), sigLabel)
                       /\ ~Includes(The(error), attLabel)
                /\ (~sigFailed /\ attFailed) =>
                       /\ StartsWith(The(error), attLabel)
                       /\ ~Includes(The(error), sigLabel)
                /\ (sigFailed /\ attFailed) =>
                       /\ StartsWith(The(error), sigLabel)
                       /\ Includes(The(error), <<"; ">> \o attLabel)
                       /\ Cardinality(Occurrences(The(error), sigLabel)) = 1
                       /\ Cardinality(Occurrences(The(error), attLabel)) = 1

\* Both fetches have failed and the record's error holds both labels
C8_Witness ==
    \E m \in DOMAIN runs :
        /\ runs[m].vpc = "done"
        /\ runs[m].sigReqs = 5 /\ runs[m].attReqs = 5
        /\ runs[m].signature = None /\ runs[m].attestation = None
        /\ The(runs[m].data).error # None
        /\ Includes(The(The(runs[m].data).error), <<"; ">>)

----------------------------------------------------------------------------
(* Further properties of verifyMessage in isolation (SpecVerify) *)

\* C11: when the text of the signature record has exactly two fields and
\* they are neither the local newline-variant hashes nor the local
\* plain-variant hashes, the record's requestHash and responseHash are the
\* two fields verbatim; the record's error is then set only by a failed
\* attestation fetch, and verified is decided by the signature check over
\* the two fields and the presence of the attestation alone.
C11_ProviderFallback ==
    (vout # None /\ The(vin).sig.record # None
        /\ Truthy(The(The(vin).sig.record).text)
        /\ Len(Split(The(The(The(vin).sig.record).text), ":")) = 2) =>
        LET h      == Hashes(The(vin).requestBody, The(vin).responseText)
            sig    == The(vin).sig.record
            parts  == Split(The(The(sig).text), ":")
            out    == The(vout)
        IN  (/\ <<parts[1], parts[2]>> #
                  <<h.requestHashWithNewlines, h.responseHashWithNewlines>>
             /\ <<parts[1], parts[2]>> #
                  <<h.requestHashNoNewlines, h.responseHashNoNewlines>>) =>
                /\ out.requestHash = parts[1]
                /\ out.responseHash = parts[2]
                /\ out.error = None <=> The(vin).att.record # None
                /\ out.error # None =>
                       StartsWith(The(out.error),
                                  <<"attestation-fetch-failed: ">>)
                /\ out.verified <=>
                       /\ The(vin).att.record # None
                       /\ validateSignature(sig,
                              parts[1] \o <<":">> \o parts[2])

\* A record whose text is a pair of hashes of another exchange, signed by
\* the declared key, was returned verified and holds that pair
C11_Witness ==
    /\ vout # None /\ The(vin).sig.record # None
    /\ The(The(vin).sig.record).text = Some(ForeignPair)
    /\ The(vout).verified
    /\ The(vout).error = None
    /\ The(vout).requestHash \o <<":">> \o The(vout).responseHash = ForeignPair
    /\ LET h == Hashes(The(vin).requestBody, The(vin).responseText)
       IN  ForeignPair # NewlinePair(h) /\ ForeignPair # PlainPair(h)

\* C12 as stated: the text whose signature is recovered is the record's
\* text if the field is present, else its signedHash if that field is
\* present, else requestHash:responseHash of the record returned; so the
\* record is verified exactly when the attestation is present, the
\* signature is well formed and made over that text, and its signer is the
\* declared address up to letter case.
C12_PayloadPrecedenceAsStated ==
    (vout # None /\ The(vin).sig.record # None) =>
        LET sig    == The(The(vin).sig.record)
            out    == The(vout)
            chosen == IF sig.text # None THEN The(sig.text)
                      ELSE IF sig.signedHash # None THEN The(sig.signedHash)
                      ELSE out.requestHash \o <<":">> \o out.responseHash
        IN  out.verified <=>
                /\ The(vin).att.record # None
                /\ sig.signature.wellFormed
                /\ sig.signature.msg = chosen
                /\ expectedAddr(sig) # None
                /\ toLowerCase(sig.signature.signer)
                     = toLowerCase(The(expectedAddr(sig)))

\* C12: the text whose signature is recovered is the record's text if it
\* is present and not empty, else its signedHash if that is present and
\* not empty, else requestHash:responseHash of the record returned (so an
\* empty field counts as absent); the record is verified exactly when the
\* attestation is present, the signature is well formed and made over that
\* text, and its signer is the declared address up to letter case.
C12_PayloadPrecedence ==
    (vout # None /\ The(vin).sig.record # None) =>
        LET sig    == The(The(vin).sig.record)
            out    == The(vout)
            chosen == IF sig.text # None /\ The(sig.text) # <<>>
                      THEN The(sig.text)
                      ELSE IF sig.signedHash # None
                                /\ The(sig.signedHash) # <<>>
                      THEN The(sig.signedHash)
                      ELSE out.requestHash \o <<":">> \o out.responseHash
        IN  out.verified <=>
                /\ The(vin).att.record # None
                /\ sig.signature.wellFormed
                /\ sig.signature.msg = chosen
                /\ expectedAddr(sig) # None
                /\ toLowerCase(sig.signature.signer)
                     = toLowerCase(The(expectedAddr(sig)))

\* A record with an empty text and no legacy hash, signed over the
\* newline-variant pair, was returned verified
C12_Witness ==
    /\ vout # None /\ The(vin).sig.record # None
    /\ The(The(vin).sig.record).text = Some(<<>>)
    /\ The(The(vin).sig.record).signedHash = None
    /\ The(The(vin).sig.record).signature.msg =
         The(vout).requestHash \o <<":">> \o The(vout).responseHash
    /\ The(vout).verified

\* C13 as stated: with the attestation present, the record is verified
\* exactly when recovery succeeds and the recovered address equals, up to
\* letter case, the signing_address field, or the signerPublicKey field
\* when signing_address is absent; in particular it is not verified when
\* the signature record is absent, when neither field is present, or when
\* the recovered address differs.
C13_AddressMatchAsStated ==
    (vout # None /\ The(vin).att.record # None) =>
        LET out == The(vout)
        IN  IF The(vin).sig.record = None THEN ~out.verified
            ELSE LET sig ==
                         The(The(vin).sig.record)
                     declared ==
                         IF sig.signing_address # None
                         THEN sig.signing_address ELSE sig.signerPublicKey
                     recovered ==
                         ethersVerifyMessage(
                             signedPayload(sig, out.requestHash \o <<":">>
                                                  \o out.responseHash),
                             sig.signature)
                 IN  out.verified <=>
                         /\ recovered # None
                         /\ declared # None
                         /\ toLowerCase(The(recovered))
                              = toLowerCase(The(declared))

\* C13: with the attestation present, the record is verified exactly when
\* recovery succeeds and the recovered address equals, up to letter case,
\* the signing_address field if it is present and not empty, else the
\* signerPublicKey field if it is present and not empty; it is not
\* verified when the signature record is absent, when neither field holds
\* an address, or when the recovered address differs.
C13_AddressMatch ==
    (vout # None /\ The(vin).att.record # None) =>
        LET out == The(vout)
        IN  IF The(vin).sig.record = None THEN ~out.verified
            ELSE LET sig ==
                         The(The(vin).sig.record)
                     declared ==
                         IF sig.signing_address # None
                              /\ The(sig.signing_address) # <<>>
                         THEN sig.signing_address ELSE sig.signerPublicKey
                     recovered ==
                         ethersVerifyMessage(
                             signedPayload(sig, out.requestHash \o <<":">>
                                                  \o out.responseHash),
                             sig.signature)
                 IN  out.verified <=>
                         /\ recovered # None
                         /\ declared # None /\ The(declared) # <<>>
                         /\ toLowerCase(The(recovered))
                              = toLowerCase(The(declared))

\* A record that declares its address in lower case only, signed by the
\* key of that address (recovered in mixed case), was returned verified
C13_Witness ==
    /\ vout # None /\ The(vin).sig.record # None
    /\ The(The(vin).sig.record).signing_address
         = Some(toLowerCase(SignerAddress))
    /\ The(The(vin).sig.record).signerPublicKey = None
    /\ The(The(vin).sig.record).signature.signer = SignerAddress
    /\ toLowerCase(SignerAddress) # SignerAddress
    /\ The(vout).verified

\* C14: when recovery throws (the signature value cannot be decoded),
\* verifyMessage still returns a record: verified is FALSE, the record
\* holds the signature record, the attestation record obtained and both
\* hashes, and its error is set only by a failed attestation fetch.
C14_RecoveryFailureIsNotFatal ==
    (vout # None /\ The(vin).sig.record # None
        /\ ~The(The(vin).sig.record).signature.wellFormed) =>
               /\ ~The(vout).verified
               /\ The(vout).signature = The(vin).sig.record
               /\ The(vout).attestation = The(vin).att.record
               /\ The(vout).fetchedAt # None
               /\ The(vout).error = None <=> The(vin).att.record # None
               /\ The(vout).error # None =>
                      StartsWith(The(The(vout).error),
                                 <<"attestation-fetch-failed: ">>)

\* A record whose signature cannot be decoded was returned with the
\* attestation: not verified, no error, hashes and evidence in place
C14_Witness ==
    /\ vout # None /\ The(vin).sig.record # None
    /\ ~The(The(vin).sig.record).signature.wellFormed
    /\ The(vout).attestation # None
    /\ The(vout).signature # None
    /\ The(vout).error = None
    /\ ~The(vout).verified
    /\ The(vout).requestHash # <<>>

----------------------------------------------------------------------------
(* Further properties of the agent (Spec) *)

C16_FirstOutcomeWins ==
    /\ [](\A m \in DOMAIN runs :
            LET msg == messages[CHOOSE k \in DOMAIN messages :
                                    messages[k].id = m]
                st  == msg.metadata.verificationStatus
                v   == The(msg.metadata.verification)
            IN  /\ runs[m].race = "pending" => st = Some("pending")
                /\ (runs[m].race = "deadline" /\ runs[m].opc = "end") =>
                       /\ st = Some("failed")
                       /\ v.error = Some(<<"Error: ", "verification-timeout">>)
                       /\ v.signature = None /\ v.attestation = None
                       /\ ~v.verified
                /\ runs[m].race = "verdict" =>
                       /\ runs[m].data # None
                       /\ v = The(runs[m].data)
                       /\ st = Some(IF v.verified THEN "verified"
                                                  ELSE "failed")
                       /\ v.error # Some(<<"Error: ", "verification-timeout">>))
    /\ [][\A m \in DOMAIN runs :
              runs[m].race # "pending" => runs'[m].race = runs[m].race]_vars

\* The deadline decided the race, the abandoned verifyMessage has since
\* returned a verified record, and the message holds the timeout record
C16_Witness ==
    \E m \in DOMAIN runs :
        /\ runs[m].race = "deadline" /\ runs[m].opc = "end"
        /\ runs[m].vpc = "done" /\ The(runs[m].data).verified
        /\ \E k \in DOMAIN messages :
               /\ messages[k].id = m
               /\ messages[k].metadata.verificationStatus = Some("failed")

----------------------------------------------------------------------------
(* Further properties of verifyMessage in isolation (SpecVerify) *)

\* C17: the record returned for a call whose attestation fetch returned a
\* record has the same verified, requestHash and responseHash as the
\* record verifyMessage returns for the same call with any other
\* attestation record in its place.
C17_AttestationIsOpaque ==
    (vout # None /\ The(vin).att.record # None) =>
        \A a \in AllAttestations :
            LET other == VerifyMessage([The(vin) EXCEPT
                                           !.att.record = Some(a)])
            IN  /\ other.verified = The(vout).verified
                /\ other.requestHash = The(vout).requestHash
                /\ other.responseHash = The(vout).responseHash

\* A verified record was returned with an attestation that is not the only
\* attestation record of the model and declares no signing address
C17_Witness ==
    /\ vout # None /\ The(vout).verified
    /\ The(vout).attestation # None
    /\ The(The(vout).attestation).signing_address = None
    /\ \E a \in AllAttestations : Some(a) # The(vout).attestation

----------------------------------------------------------------------------
(* Further properties of the agent (Spec) *)

\* C18: when the hashing primitive fails, verifyMessage issues no request
\* and returns no record: it rejects with the error of the primitive, the
\* race is decided by that error, and the caller's catch branch receives
\* it (the message is failed with that error and empty hashes).  When the
\* primitive works verifyMessage never rejects.
C18_HashFailurePropagates ==
    \A m \in DOMAIN runs :
        /\ ~hashOk =>
               /\ runs[m].vpc \in {"hash", "threw"}
               /\ runs[m].data = None
               /\ runs[m].sigReqs = 0 /\ runs[m].attReqs = 0
               /\ runs[m].race \in {"pending", "error"}
        /\ runs[m].vpc = "threw" =>
               /\ ~hashOk
               /\ runs[m].race = "error"
               /\ runs[m].e = <<"TypeError: ", "digest failed">>
        /\ runs[m].race = "error" => runs[m].vpc = "threw"
        /\ (runs[m].race = "error" /\ runs[m].opc = "end") =>
               LET msg == messages[CHOOSE k \in DOMAIN messages :
                                       messages[k].id = m]
                   v   == The(msg.metadata.verification)
               IN  /\ msg.metadata.verificationStatus = Some("failed")
                   /\ v.error = Some(<<"TypeError: ", "digest failed">>)
                   /\ v.requestHash = <<>> /\ v.responseHash = <<>>
                   /\ ~v.verified

\* verifyMessage has rejected with the error of the hashing primitive and
\* the catch branch of the task has recorded it
C18_Witness ==
    \E m \in DOMAIN runs :
        /\ runs[m].vpc = "threw" /\ runs[m].race = "error"
        /\ runs[m].opc = "end" /\ runs[m].data = None
        /\ \E k \in DOMAIN messages :
               /\ messages[k].id = m
               /\ messages[k].metadata.verificationStatus = Some("failed")

----------------------------------------------------------------------------
(* The agent with two verified exchanges in flight.  The provider answers *)
(* a request or leaves it unanswered; the retries of one fetch are        *)
(* covered by Spec.                                                        *)

\* The exchange identifiers of the two exchanges
PairChatIds == {Some(<<"chat-1">>), Some(<<"chat-2">>)}

InitPair ==
    /\ messages = <<>>
    /\ runs = <<>>
    /\ nextId = 1
    /\ finishes = {}
    /\ apiKey = <<"key">>
    /\ hashOk \in BOOLEAN
    /\ vin = None
    /\ vout = None
    /\ StreamIdle

NextPair ==
    \/ \E c \in PairChatIds : OnChatMessage(c, <<"h", "i">>)
    \/ \E d \in TaskDescriptions : ExecuteTask(d)
    \/ \E m \in DOMAIN runs : VerifyHashes(m)
    \/ \E m \in {n \in DOMAIN runs : runs[n].vpc = "sig"} :
           \E s \in ProviderSignatures(The(runs[m].hashes)) :
               SignatureResponded(m, s)
    \/ \E m \in DOMAIN runs, a \in ProviderAttestations : AttestationResponded(m, a)
    \/ \E m \in DOMAIN runs : DeadlineFires(m)
    \/ \E m \in DOMAIN runs : CatchBranch(m)
    \/ Tick

SpecPair == InitPair /\ [][NextPair]_vars

\* C20: every update of the message list reads and writes it in one step,
\* so none is lost: the list holds every message appended so far, in the
\* order of their ids; a step changes at most the one message whose
\* verification task ends in that step; and every task that has ended has
\* left its outcome on its message (the record of verifyMessage, or the
\* failure with the error caught), whatever the other task, the saves of
\* pending messages and the scheduled tasks did meanwhile.
C20_NoLostUpdate ==
    /\ [](/\ Len(messages) = nextId - 1
          /\ \A k \in DOMAIN messages : messages[k].id = k
          /\ Cardinality(finishes)
               = Cardinality({k \in DOMAIN messages :
                                 messages[k].role = "assistant"})
          /\ \A m \in DOMAIN runs :
               LET meta == messages[m].metadata
               IN  /\ runs[m].opc # "end" =>
                          meta.verificationStatus = Some("pending")
                   /\ runs[m].race = "verdict" =>
                          meta.verification = runs[m].data
                   /\ (runs[m].race \in {"deadline", "error"}
                         /\ runs[m].opc = "end") =>
                          /\ meta.verificationStatus = Some("failed")
                          /\ The(meta.verification).error = Some(runs[m].e)
                          /\ The(meta.verification).chatId = runs[m].chatId)
    /\ [][\A k \in DOMAIN messages :
              /\ k \in DOMAIN messages'
              /\ messages'[k] # messages[k] =>
                     /\ k \in DOMAIN runs
                     /\ runs[k].opc # "end" /\ runs'[k].opc = "end"
                     /\ \A j \in DOMAIN messages \ {k} :
                            messages'[j] = messages[j]
         ]_vars

\* Two verification tasks have ended, the first by the deadline and the
\* second, launched later, by a verified record, a scheduled task was
\* appended between them, and all three messages are in the list
C20_Witness ==
    /\ Len(messages) = 3
    /\ messages[2].role = "user"
    /\ DOMAIN runs = {1, 3}
    /\ runs[1].race = "deadline" /\ runs[1].opc = "end"
    /\ runs[3].race = "verdict" /\ runs[3].dfired
    /\ messages[1].metadata.verificationStatus = Some("failed")
    /\ messages[3].metadata.verificationStatus = Some("verified")

----------------------------------------------------------------------------
(* The status of a message and its record (Spec) *)

\* C21: for every message of the list, the verification status is
\* "verified" if and only if the message holds a record with verified =
\* TRUE; a message whose status is "verified" holds a signature record and
\* an attestation record; a message whose status is "pending" or "failed"
\* holds a record with verified = FALSE.
C21_StatusMatchesRecord ==
    \A k \in DOMAIN messages :
        LET meta     == messages[k].metadata
            verified == /\ meta.verification # None
                        /\ The(meta.verification).verified
        IN  /\ meta.verificationStatus = Some("verified") <=> verified
            /\ meta.verificationStatus = Some("verified") =>
                   /\ The(meta.verification).signature # None
                   /\ The(meta.verification).attestation # None
            /\ meta.verificationStatus \in {Some("pending"), Some("failed")} =>
                   /\ meta.verification # None
                   /\ ~The(meta.verification).verified

\* One message is verified and holds both records; another, stored without
\* exchange identifier, is pending
C21_Witness ==
    \E k, j \in DOMAIN messages :
        /\ messages[k].metadata.verificationStatus = Some("verified")
        /\ The(messages[k].metadata.verification).verified
        /\ The(messages[k].metadata.verification).signature # None
        /\ The(messages[k].metadata.verification).attestation # None
        /\ messages[j].metadata.verificationStatus = Some("pending")

\* msgs and out are the same list but for the record and the status of the
\* message with id messageId: same length and order, every other message
\* unchanged, and that message's id, role, parts and createdAt unchanged
SameButOutcome(msgs, out, messageId) ==
    /\ DOMAIN out = DOMAIN msgs
    /\ \A k \in DOMAIN msgs :
           IF msgs[k].id = messageId
           THEN out[k] = [msgs[k] EXCEPT
                             !.metadata.verification =
                                 out[k].metadata.verification,
                             !.metadata.verificationStatus =
                                 out[k].metadata.verificationStatus]
           ELSE out[k] = msgs[k]

\* C22: the step in which a verification task ends (by the record of
\* verifyMessage or by the catch branch) changes only the record and the
\* status of the message with the task's id: its id, role, parts and
\* createdAt, every other message, and the length and order of the list
\* stay as they were.  The same holds of both updates applied to the list
\* of any reachable state with any id, and with an id that no message of
\* the list has they return the list unchanged.
C22_OutcomeFrame ==
    /\ [][\A m \in DOMAIN runs :
              (runs[m].opc # "end" /\ runs'[m].opc = "end") =>
                  SameButOutcome(messages, messages', m)]_vars
    /\ [](\A id \in 0..nextId :
            LET failed == ApplyFailure(messages, id, TimeoutError,
                                       <<"chat-1">>, <<>>, <<>>)
            IN  /\ SameButOutcome(messages, failed, id)
                /\ (\A k \in DOMAIN messages : messages[k].id # id) =>
                       failed = messages
                /\ \A m \in DOMAIN runs :
                     runs[m].data # None =>
                       LET updated == ApplyVerdict(messages, id,
                                                   The(runs[m].data))
                       IN  /\ SameButOutcome(messages, updated, id)
                           /\ (\A k \in DOMAIN messages :
                                   messages[k].id # id) =>
                                  updated = messages)

\* The second of three messages was marked failed by the catch branch
\* after the deadline; the first, a scheduled task, and the third, a
\* pending message without exchange identifier, are in place
C22_Witness ==
    /\ Len(messages) = 3
    /\ 2 \in DOMAIN runs
    /\ runs[2].race = "deadline" /\ runs[2].opc = "end"
    /\ messages[1].role = "user"
    /\ messages[2].metadata.verificationStatus = Some("failed")
    /\ messages[2].parts = <<"o", "k", "\n">>
    /\ messages[3].metadata.verificationStatus = Some("pending")

\* C23: a message is appended to the list either without status (a
\* scheduled task) or as an assistant message with status "pending",
\* verified = FALSE and empty hashes; in the step that appends an assistant
\* message the finish notification with that pending record is delivered,
\* and the verification task, if one is launched, has computed nothing and
\* decided nothing yet.  Every task's message is in the list and was
\* notified as pending, and the status of a message becomes "verified" or
\* "failed" only from "pending".
C23_PendingFirst ==
    /\ [][/\ \A k \in DOMAIN messages' \ DOMAIN messages :
               LET msg == messages'[k]
               IN  IF msg.role = "assistant"
                   THEN /\ msg.metadata.verificationStatus = Some("pending")
                        /\ msg.metadata.verification # None
                        /\ ~The(msg.metadata.verification).verified
                        /\ The(msg.metadata.verification).requestHash = <<>>
                        /\ The(msg.metadata.verification).responseHash = <<>>
                        /\ [messageId    |-> msg.id,
                            verification |-> The(msg.metadata.verification)]
                             \in finishes' \ finishes
                        /\ msg.id \notin DOMAIN runs
                        /\ msg.id \in DOMAIN runs' =>
                               /\ runs'[msg.id].race = "pending"
                               /\ runs'[msg.id].vpc = "hash"
                               /\ runs'[msg.id].data = None
                   ELSE msg.metadata.verificationStatus = None
          /\ \A k \in DOMAIN messages :
               (messages'[k].metadata.verificationStatus
                    \in {Some("verified"), Some("failed")}
                  /\ messages'[k].metadata.verificationStatus
                       # messages[k].metadata.verificationStatus) =>
                   messages[k].metadata.verificationStatus = Some("pending")
         ]_vars
    /\ [](/\ \A m \in DOMAIN runs :
               /\ \E k \in DOMAIN messages : messages[k].id = m
               /\ \E f \in finishes :
                      f.messageId = m /\ ~f.verification.verified
          /\ \A f \in finishes :
               /\ ~f.verification.verified
               /\ f.verification.requestHash = <<>>
               /\ f.verification.responseHash = <<>>
               /\ f.verification.signature = None)

\* The finish notification of a message was delivered with the pending
\* record while its task had issued its first signature request, which is
\* unanswered, and the message is pending
C23_Witness ==
    \E m \in DOMAIN runs :
        /\ runs[m].vpc = "sig" /\ runs[m].fst = "req" /\ runs[m].sigReqs = 1
        /\ runs[m].race = "pending" /\ ~runs[m].dfired
        /\ \E f \in finishes : f.messageId = m /\ ~f.verification.verified
        /\ \E k \in DOMAIN messages :
               /\ messages[k].id = m
               /\ messages[k].metadata.verificationStatus = Some("pending")

----------------------------------------------------------------------------
(* streamChatCompletion: the response body is read chunk by chunk and its  *)
(* server-sent events are parsed.  The body is a sequence of atoms: the    *)
(* field name "data:", a space, a line feed, and the atoms of a payload.   *)
(* The JSON payload {"choices":[{"delta":{"content":c}}]} is written       *)
(* "{", c, "}".                                                            *)

LF == "\n"

RECURSIVE SplitBlankFrom(_, _)
\* The parts of s delimited by two line feeds, found from left to right;
\* `acc` is the part being read.
SplitBlankFrom(s, acc) ==
    IF s = <<>> THEN <<acc>>
    ELSE IF Len(s) >= 2 /\ s[1] = LF /\ s[2] = LF
    THEN <<acc>> \o SplitBlankFrom(SubSeq(s, 3, Len(s)), <<>>)
    ELSE SplitBlankFrom(Tail(s), Append(acc, Head(s)))

\* buffer.split(/\n\n/)
SplitBlank(buffer) == SplitBlankFrom(buffer, <<>>)

\* !part.trim(): the part holds white space only
IsBlank(part) == \A i \in DOMAIN part : part[i] \in {" ", LF}

\* l.replace(/^data:\s?/, "") of a line that starts with "data:"
StripData(l) ==
    IF Len(l) >= 2 /\ l[2] = " " THEN SubSeq(l, 3, Len(l))
    ELSE SubSeq(l, 2, Len(l))

RECURSIVE JoinLines(_)
\* dataLines.join("\n")
JoinLines(ls) ==
    IF ls = <<>> THEN <<>>
    ELSE IF Len(ls) = 1 THEN ls[1]
    ELSE ls[1] \o <<LF>> \o JoinLines(Tail(ls))

\* The data lines of one part, stripped of the field name
DataLines(part) ==
    LET dataLines == SelectSeq(Split(part, LF),
                               LAMBDA l : StartsWith(l, <<"data:">>))
    IN  [i \in DOMAIN dataLines |-> StripData(dataLines[i])]

\* parseSSE(buffer): the payloads of the events of the buffer, its last
\* part included whether or not a blank line ends it
parseSSE(buffer) ==
    LET parts == SelectSeq(SplitBlank(buffer),
                           LAMBDA part : ~IsBlank(part)
                                           /\ DataLines(part) # <<>>)
    IN  [i \in DOMAIN parts |-> JoinLines(DataLines(parts[i]))]

\* JSON.parse(ev) and json?.choices?.[0]?.delta?.content: the content of a
\* well-formed payload, None when JSON.parse throws (a payload that is cut
\* short, or is not JSON)
JSONparse(ev) ==
    IF /\ Len(ev) >= 2 /\ ev[1] = "{" /\ ev[Len(ev)] = "}"
       /\ \A i \in 2..(Len(ev) - 1) : ev[i] \notin {"{", "}", LF, "data:"}
    THEN Some(SubSeq(ev, 2, Len(ev) - 1))
    ELSE None

\* The contents appended for a list of events, in order: "[DONE]", an
\* event that is not JSON and an empty content append nothing
DeltaContents(events) ==
    LET content(ev) == IF ev = <<"[DONE]">> \/ JSONparse(ev) = None
                       THEN <<>> ELSE The(JSONparse(ev))
    IN  SelectSeq([i \in DOMAIN events |-> content(events[i])],
                  LAMBDA c : c # <<>>)

\* sseBuffer.lastIndexOf("\n\n") (1-based; 0 when there is none)
LastBlankIndex(buffer) ==
    LET at == { i \in 1..(Len(buffer) - 1) :
                    buffer[i] = LF /\ buffer[i + 1] = LF }
    IN  IF at = {} THEN 0 ELSE CHOOSE i \in at : \A j \in at : j <= i

\* if (lastDoubleNewlineIndex !== -1)
\*   sseBuffer = sseBuffer.slice(lastDoubleNewlineIndex + 2)
KeepRemainder(buffer) ==
    IF LastBlankIndex(buffer) = 0 THEN buffer
    ELSE SubSeq(buffer, LastBlankIndex(buffer) + 2, Len(buffer))

\* One event with content c
SseEvent(c) == <<"data:", " ", "{", c, "}", LF, LF>>

\* The bodies streamed: two events and the end marker; events whose field
\* name is followed by no space; a body whose last event no blank line
\* ends; an event that follows a comment and has an event field
SseStreams ==
    { SseEvent("h") \o SseEvent("i") \o <<"data:", " ", "[DONE]", LF, LF>>,
      <<"data:", "{", "o", "}", LF, LF, "data:", "{", "k", "}", LF, LF>>,
      SseEvent("h") \o <<"data:", " ", "{", "i", "}">>,
      <<":", "ping", LF, LF, "event:", "x", LF>> \o SseEvent("o")
          \o SseEvent("k") }

InitStream ==
    /\ messages = <<>>
    /\ runs = <<>>
    /\ nextId = 1
    /\ finishes = {}
    /\ apiKey = <<"key">>
    /\ hashOk = TRUE
    /\ vin = None
    /\ vout = None
    /\ sseStream \in SseStreams
    /\ unread = sseStream
    /\ sseBuffer = <<>>
    /\ sseResponseText = <<>>
    /\ tokens = <<>>

\* One pass of the read loop: reader.read() returns the next n atoms of the
\* body; they are added to the buffer, the events of the whole buffer are
\* parsed, the buffer is cut after its last blank line, and the content of
\* every event is appended to responseText and passed to onToken.
ReadChunk(n) ==
    /\ n \in 1..Len(unread)
    /\ LET buffer   == sseBuffer \o SubSeq(unread, 1, n)
           contents == DeltaContents(parseSSE(buffer))
       IN  /\ sseBuffer' = KeepRemainder(buffer)
           /\ sseResponseText' = sseResponseText \o Flatten(contents)
           /\ tokens' = tokens \o contents
    /\ unread' = SubSeq(unread, n + 1, Len(unread))
    /\ UNCHANGED <<messages, runs, nextId, finishes, apiKey, hashOk, vin,
                   vout, sseStream>>

NextStream == \E n \in 1..Len(unread) : ReadChunk(n)

SpecStream == InitStream /\ [][NextStream]_vars

\* The contents of the events of a body, in order
StreamContents(body) == DeltaContents(parseSSE(body))

\* C24: when the body has been read to its end, whatever the chunks were,
\* responseText is the concatenation of the contents of the events of the
\* body and onToken was called once with each content, in order.
C24_ChunkingIndependent ==
    (sseStream # <<>> /\ unread = <<>>) =>
        /\ sseResponseText = Flatten(StreamContents(sseStream))
        /\ tokens = StreamContents(sseStream)

----------------------------------------------------------------------------
(* The canonical pair and the signed text (SpecVerify) *)

\* C25: when the text of the signature record splits at ":" into exactly
\* two fields, requestHash + ":" + responseHash of the record returned is
\* that text, whichever branch of the reconciliation chose the pair (the
\* newline variant, the plain variant, or the two fields verbatim).
C25_PairReproducesText ==
    (vout # None /\ The(vin).sig.record # None
        /\ Truthy(The(The(vin).sig.record).text)
        /\ Len(Split(The(The(The(vin).sig.record).text), ":")) = 2) =>
        The(vout).requestHash \o <<":">> \o The(vout).responseHash
          = The(The(The(vin).sig.record).text)

\* A record whose text is the plain-variant pair was returned with the
\* plain-variant hashes, which differ from the newline variant
C25_Witness ==
    /\ vout # None /\ The(vin).sig.record # None
    /\ LET h == Hashes(The(vin).requestBody, The(vin).responseText)
       IN  /\ The(The(vin).sig.record).text = Some(PlainPair(h))
           /\ The(vout).requestHash = h.requestHashNoNewlines
           /\ The(vout).responseHash = h.responseHashNoNewlines
           /\ h.requestHashNoNewlines # h.requestHashWithNewlines
           /\ h.responseHashNoNewlines # h.responseHashWithNewlines

\* C26: in every record returned with verified = TRUE, the text over which
\* the signature was recovered (signedPayload) is requestHash + ":" +
\* responseHash of that record, also when the signature record holds a
\* signedHash or a text that does not split into exactly two fields.
C26_SignedTextIsCanonical ==
    (vout # None /\ The(vout).verified) =>
        LET canonical == The(vout).requestHash \o <<":">>
                           \o The(vout).responseHash
        IN  signedPayload(The(The(vout).signature), canonical) = canonical

----------------------------------------------------------------------------
(* The launch guard and the deadline (Spec) *)

\* C27: a verification task exists only for a message that was stored with
\* an exchange identifier while the credential was not empty, and it is
\* created in the step that appends its message.  An assistant message
\* stored without exchange identifier, or with an empty credential, has no
\* task (so no request is ever issued for it) and stays as it was stored:
\* status "pending", verified = FALSE, empty hashes, no evidence, no error.
C27_LaunchGuard ==
    /\ [](\A k \in DOMAIN messages :
            LET msg == messages[k]
            IN  /\ msg.id \in DOMAIN runs =>
                      /\ apiKey # <<>>
                      /\ runs[msg.id].chatId # <<>>
                      /\ The(msg.metadata.verification).chatId
                           = runs[msg.id].chatId
                /\ (msg.role = "assistant"
                      /\ (apiKey = <<>>
                            \/ The(msg.metadata.verification).chatId = <<>>)) =>
                      /\ msg.id \notin DOMAIN runs
                      /\ msg.metadata.verificationStatus = Some("pending")
                      /\ msg.metadata.verification
                           \in {Some(PendingVerification(c)) : c \in ChatIds})
    /\ [][\A m \in DOMAIN runs' \ DOMAIN runs :
              /\ apiKey # <<>>
              /\ Len(messages') = Len(messages) + 1
              /\ messages'[Len(messages')].id = m
              /\ The(messages'[Len(messages')].metadata.verification).chatId
                   # <<>>
              /\ runs'[m].sigReqs = 0 /\ runs'[m].attReqs = 0]_vars

\* With an empty credential two assistant messages, one of them with an
\* exchange identifier, and a scheduled task are stored; no task was
\* launched and both assistant messages are pending
C27_Witness ==
    /\ apiKey = <<>>
    /\ runs = <<>>
    /\ Len(messages) = 3
    /\ \E k \in DOMAIN messages :
           /\ messages[k].role = "assistant"
           /\ The(messages[k].metadata.verification).chatId = <<"chat-1">>
           /\ messages[k].metadata.verificationStatus = Some("pending")
    /\ \E k \in DOMAIN messages :
           /\ messages[k].role = "assistant"
           /\ The(messages[k].metadata.verification).chatId = <<>>
           /\ messages[k].metadata.verificationStatus = Some("pending")

\* C28: a fetch that fails all its 5 requests has waited 50 s, more than
\* the 30 s of the deadline, so when it gives up the deadline timer has
\* fired and has decided the race; the record of verifyMessage that holds
\* the error of that fetch is never written, and no message of the list
\* has an error that contains "signature-fetch-failed" or
\* "attestation-fetch-failed".
C28_DeadlineBeforeExhaustion ==
    /\ \A m \in DOMAIN runs :
         LET sigExhausted == /\ runs[m].vpc \in {"att", "done"}
                             /\ runs[m].signature = None
             attExhausted == /\ runs[m].vpc = "done"
                             /\ runs[m].attestation = None
         IN  /\ sigExhausted => runs[m].sigWaited > verificationTimeoutMs
             /\ attExhausted => runs[m].attWaited > verificationTimeoutMs
             /\ (sigExhausted \/ attExhausted) =>
                    /\ runs[m].dfired
                    /\ runs[m].race = "deadline"
    /\ \A k \in DOMAIN messages :
         LET v == messages[k].metadata.verification
         IN  (v # None /\ The(v).error # None) =>
                 /\ ~Includes(The(The(v).error), <<"signature-fetch-failed: ">>)
                 /\ ~Includes(The(The(v).error),
                              <<"attestation-fetch-failed: ">>)

\* The signature fetch has given up after 5 requests and verifyMessage has
\* returned a record with its error, long after the deadline: the message
\* holds the timeout
C28_Witness ==
    \E m \in DOMAIN runs :
        /\ runs[m].vpc = "done" /\ runs[m].sigReqs = 5
        /\ runs[m].signature = None /\ runs[m].attestation # None
        /\ Includes(The(The(runs[m].data).error),
                    <<"signature-fetch-failed: ">>)
        /\ runs[m].race = "deadline" /\ runs[m].opc = "end"
        /\ \E k \in DOMAIN messages :
               /\ messages[k].id = m
               /\ The(messages[k].metadata.verification).error
                    = Some(TimeoutError)

====
